---- MODULE Spec2Model ----
(***************************************************************************)
(* go-repo-sync (src/main.go): a one-shot batch job that, for every        *)
(* repository of the input YAML, fetches all remotes, checks out / updates *)
(* a local branch for every branch of the source remote, force-pushes it   *)
(* to the target remote under the mapped name and force-pushes every tag.  *)
(*                                                                         *)
(* The model follows main() statement by statement.  Every call into the   *)
(* go-git library is one action; its outcome ("ok", "uptodate", "err") is  *)
(* decided by the modelled repository state, and "err" (I/O or network     *)
(* failure) may happen at any call.  Every call is appended to log.        *)
(***************************************************************************)
EXTENDS Integers, Sequences, FiniteSets, TLC

\* Commits are 1..MaxCommit; 0 stands for "no such reference".
MaxCommit == 3
\* Number of successive invocations of the program that are modelled.
MaxRuns == 2

\* The commit graph is a binary tree rooted at 1: the parent of c is c \div 2.
\* (2 and 3 are diverging children of 1.)
RECURSIVE isFastForward(_, _)
\* go-git isFastForward(old, new): old is reachable from new.
isFastForward(old, new) ==
  IF new < old \/ new = 0 THEN FALSE
  ELSE IF new = old THEN TRUE
  ELSE isFastForward(old, new \div 2)

RemoteNames == {"origin", "mirror", "github"}
BranchNames == {"master", "dev"}

\* plumbing.ReferenceName: <<prefix, short name>>.
HeadsPrefix == "refs/heads/"
TagsPrefix == "refs/tags/"
BranchRefName(b) == <<HeadsPrefix, b>>
TagRefName(t) == <<TagsPrefix, t>>
HEADName == <<"", "HEAD">>
NoName == <<"", "">>

\* ReferenceName.IsBranch(): the name has the prefix refs/heads/.
IsBranch(name) == name[1] = HeadsPrefix
\* ReferenceName.Short(): the name without its refs/heads/ or refs/tags/ prefix.
Short(name) == name[2]

\* plumbing.Reference: a name and a hash.  Nil is the nil *plumbing.Reference.
Ref(name, hash) == [name |-> name, hash |-> hash]
Nil == Ref(NoName, 0)

\* All orderings of a finite set (Go map and go-git iterator orders are not fixed).
Perms(S) ==
  {s \in [1 .. Cardinality(S) -> S] : \A i, j \in 1 .. Cardinality(S) : i # j => s[i] # s[j]}

NoMapping == [b \in {} |-> ""]

\* mapBranch without the lookup: every name is passed through.
mapBranch_NoLookup(T, branchName) == branchName

\* RepoSync.mapBranch (T is rs.BranchMapping).
mapBranch(T, branchName) ==
  IF branchName \in DOMAIN T THEN T[branchName] ELSE branchName

AllBranchNames == BranchNames \cup {"main"}
NoHeads == [b \in AllBranchNames |-> 0]
\* What a remote server holds: its branches and its tags.
Server(heads, tags) == [heads |-> heads, tags |-> tags]
EmptyServer == Server(NoHeads, {})

VARIABLES
  repoSync,        \* the parsed input YAML (main.go:49-52, 120)
  git,             \* per repository path: the repository on disk and its remotes' servers
  run,             \* number of the current invocation of the program
  pc,              \* position of main()
  exitCode,        \* -1 while running, else the exit status of the current invocation
  todo,            \* repositories the range loop of line 125 has not yet visited
  rs,              \* the loop variable rs of line 125 (a key of repoSync.Repos)
  remotes,         \* the slice remotes of line 133
  ri,              \* index of the fetch loop of line 152
  branchesToSync,  \* the slice of line 149
  bi,              \* index of the branch loop of line 180
  localBranch,     \* the variable localBranch of line 187
  tags,            \* the tag iterator of line 295, as the sequence it yields
  ti,              \* position of tags.ForEach
  log,             \* every go-git call the current invocation issued, in order, with its outcome
  created          \* history: <<run, repository, branch name>> of every branch line 195 created

vars == <<repoSync, git, run, pc, exitCode, todo, rs, remotes, ri,
          branchesToSync, bi, localBranch, tags, ti, log, created>>
prog == <<todo, rs, remotes, ri, branchesToSync, bi, localBranch, tags, ti>>

\* ---------------------------------------------------------------- inputs

\* A Repo of the input YAML (main.go:41-46).
RepoEntry(path, source) ==
  [Path |-> path, SourceRemote |-> [Name |-> source],
   TargetRemote |-> [Name |-> "github", Url |-> "git@github.com:bar/foo.git"]]

\* A repository on disk.  remotes: the configured remotes; heads: local branches;
\* tags: local tags; stale: remotes whose next fetch brings something new;
\* srv: the servers behind the remote names.
Repository(rem, srcHeads, srcTags, heads, tgs) ==
  [remotes |-> rem, heads |-> heads, HEAD |-> NoName, tags |-> tgs,
   stale |-> rem,
   srv |-> [n \in RemoteNames |->
              IF n = "origin" THEN Server(srcHeads, srcTags) ELSE EmptyServer]]

Heads(m, d) == [b \in AllBranchNames |->
                  IF b = "master" THEN m ELSE IF b = "dev" THEN d ELSE 0]

RemoteSets == {{"origin"}, {"origin", "github"}, {"origin", "mirror"}}
SourceNames == {"origin", "upstream"}
Mappings == {NoMapping, "master" :> "main"}

\* Every repository state considered when the input names one repository:
\* origin holds master at any commit or not at all, and possibly dev (at the
\* root commit) together with the tag v2; locally master exists at any commit
\* or not at all, and the tag v1 may exist.
Repositories ==
  {Repository(rem, Heads(m, d), IF d = 1 THEN {"v2"} ELSE {}, Heads(lm, 0), lt) :
     rem \in RemoteSets, m \in 0 .. MaxCommit, d \in {0, 1},
     lm \in 0 .. MaxCommit, lt \in {{}, {"v1"}}}

\* The repository states considered when the input names two repositories:
\* origin holds master at the root commit, no local branch, the local tag v1.
SmallRepositories ==
  {Repository(rem, Heads(1, 0), {}, Heads(0, 0), {"v1"}) : rem \in RemoteSets}

\* The sets of repository names an input may hold.
Inputs == {{"foo"}, {"foo", "bar"}}

Init ==
  /\ \E names \in Inputs :
       /\ \E src \in [names -> SourceNames],
             T \in IF Cardinality(names) = 1 THEN Mappings ELSE {NoMapping} :
            repoSync = [Repos |-> [n \in names |-> RepoEntry(n, src[n])],
                        BranchMapping |-> T]
       /\ git \in [names -> IF Cardinality(names) = 1 THEN Repositories
                            ELSE SmallRepositories]
       /\ todo = names
  /\ run = 1
  /\ pc = "loop"
  /\ exitCode = -1
  /\ rs = ""
  /\ remotes = <<>>
  /\ ri = 1
  /\ branchesToSync = <<>>
  /\ bi = 1
  /\ localBranch = Nil
  /\ tags = <<>>
  /\ ti = 1
  /\ log = <<>>
  /\ created = {}

\* ---------------------------------------------------------------- helpers

Outcomes == {"ok", "err"}

\* One go-git call: the operation, the remote it talks to (or ""), the source
\* and destination reference names (for createRemote the destination holds the
\* URL), the commit involved and the outcome.  A push is always forced ("+").
Call(op, remote, ref, dst, hash, out) ==
  [run |-> run, repo |-> rs, op |-> op, remote |-> remote, ref |-> ref,
   dst |-> dst, hash |-> hash, out |-> out]

\* log.Errorf(...); os.Exit(1)
Exit(code) ==
  /\ pc' = "exit"
  /\ exitCode' = code

Cfg == repoSync.Repos[rs]
Here == git[rs]
SetGit(g) == git' = [git EXCEPT ![rs] = g]

\* The references a server advertises (go-git Remote.List): HEAD, its branches
\* and its tags.
AdvertisedRefs(server) ==
  {Ref(BranchRefName(b), server.heads[b]) : b \in {x \in AllBranchNames : server.heads[x] # 0}}
    \cup {Ref(TagRefName(t), 1) : t \in server.tags}
    \cup (IF server.heads["master"] # 0
            THEN {Ref(HEADName, server.heads["master"])} ELSE {})

\* The fetch loop with the tag push placed inside the branch loop's exit only.
AfterFetch_TagsOnlyAfterBranches(i, branches) ==
  IF i <= Len(remotes) THEN "fetch"
  ELSE IF Len(branches) >= 1 THEN "worktree" ELSE "loop"

\* Where main() continues once the fetch loop (152-177) is at index i.
AfterFetch(i, branches) ==
  IF i <= Len(remotes) THEN "fetch"
  ELSE IF Len(branches) >= 1 THEN "worktree" ELSE "tags"

\* Where main() continues once the branch loop (180-292) is at index i.
AfterBranch(i) ==
  IF i <= Len(branchesToSync) THEN "worktree" ELSE "tags"

\* Line 163 with the comparison inverted.
IsSourceRemote_Inverted(name) == name # Cfg.SourceRemote.Name

\* Line 163 without the comparison: every remote is listed.
IsSourceRemote_Always(name) == TRUE

\* The condition of line 163.
IsSourceRemote(name) == name = Cfg.SourceRemote.Name

\* ---------------------------------------------------------------- main()

\* 125-131: the range loop picks a repository (Go map order) and opens it.
PlainOpen ==
  /\ pc = "loop"
  /\ \E r \in todo, out \in Outcomes :
       /\ rs' = r
       /\ todo' = todo \ {r}
       /\ log' = Append(log, [run |-> run, repo |-> r, op |-> "open", remote |-> "",
                              ref |-> NoName, dst |-> NoName, hash |-> 0, out |-> out])
       /\ IF out = "ok" THEN pc' = "remotes" /\ UNCHANGED exitCode ELSE Exit(1)
  /\ remotes' = <<>>
  /\ ri' = 1
  /\ branchesToSync' = <<>>
  /\ bi' = 1
  /\ localBranch' = Nil
  /\ tags' = <<>>
  /\ ti' = 1
  /\ UNCHANGED <<created, repoSync, git, run>>

\* 125, 322: the range loop is over and main() returns.
Finish ==
  /\ pc = "loop"
  /\ todo = {}
  /\ pc' = "done"
  /\ exitCode' = 0
  /\ UNCHANGED <<created, repoSync, git, run, prog, log>>

\* 133-137: repo.Remotes(), in the order of a Go map.
Remotes ==
  /\ pc = "remotes"
  /\ \E out \in Outcomes :
       /\ log' = Append(log, Call("remotes", "", NoName, NoName, 0, out))
       /\ IF out = "ok"
            THEN /\ \E order \in Perms(Here.remotes) : remotes' = order
                 /\ pc' = "target"
                 /\ UNCHANGED exitCode
            ELSE Exit(1) /\ UNCHANGED remotes
  /\ UNCHANGED <<created, repoSync, git, run, todo, rs, ri, branchesToSync, bi, localBranch, tags, ti>>

\* The outcomes of repo.Remote(name): ErrRemoteNotFound when no remote has that
\* name; reading the repository's config may fail in every case.
GetRemoteOutcomes(name) ==
  {"err"} \cup (IF name \in Here.remotes THEN {"ok"} ELSE {"notfound"})

\* The outcomes of repo.CreateRemote(name): ErrRemoteExists when a remote has
\* that name; writing the repository's config may fail in every case.
CreateRemoteOutcomes(name) ==
  {"err"} \cup (IF name \in Here.remotes THEN {} ELSE {"ok"})

\* 141: err != nil, whatever the error of repo.Remote is.
TargetRemoteMissing(out) == out # "ok"

\* 139-147: repo.Remote(target); on any error of it, repo.CreateRemote, whose
\* error return is discarded.
TargetRemote ==
  /\ pc = "target"
  /\ LET name == Cfg.TargetRemote.Name IN
     \E got \in GetRemoteOutcomes(name) :
       IF ~TargetRemoteMissing(got)
         THEN /\ log' = Append(log, Call("getRemote", name, NoName, NoName, 0, got))
              /\ UNCHANGED git
         ELSE \E out \in CreateRemoteOutcomes(name) :
                /\ log' = log \o <<Call("getRemote", name, NoName, NoName, 0, got),
                                   [Call("createRemote", name, NoName, NoName, 0, out)
                                      EXCEPT !.dst = <<"", Cfg.TargetRemote.Url>>]>>
                /\ IF out = "ok"
                     THEN SetGit([Here EXCEPT !.remotes = @ \cup {name}])
                     ELSE UNCHANGED git
  /\ pc' = AfterFetch(1, <<>>)
  /\ UNCHANGED <<created, repoSync, run, exitCode, prog>>

\* Line 158 with the fetch error dropped.
FetchFailed_Ignored(out) == FALSE

\* The condition of line 158.
FetchFailed(out) == out # "ok" /\ out # "uptodate"

\* 152-161: remote.Fetch with all tags.
Fetch ==
  /\ pc = "fetch"
  /\ LET name == remotes[ri] IN
     \E out \in {IF name \in Here.stale THEN "ok" ELSE "uptodate", "err"} :
       /\ log' = Append(log, Call("fetch", name, NoName, NoName, 0, out))
       /\ IF FetchFailed(out)
            THEN Exit(1) /\ UNCHANGED <<git, ri>>
            ELSE /\ SetGit([Here EXCEPT !.stale = @ \ {name},
                                        !.tags = @ \cup Here.srv[name].tags])
                 /\ UNCHANGED exitCode
                 /\ IF IsSourceRemote(name)
                      THEN pc' = "list" /\ UNCHANGED ri
                      ELSE pc' = AfterFetch(ri + 1, branchesToSync) /\ ri' = ri + 1
  /\ UNCHANGED <<created, repoSync, run, todo, rs, remotes, branchesToSync, bi, localBranch, tags, ti>>

\* 163-176: remote.List on the source remote; its branches are appended to
\* branchesToSync in the order the listing returns them.
List ==
  /\ pc = "list"
  /\ LET name == remotes[ri] IN
     \E out \in Outcomes :
       /\ log' = Append(log, Call("list", name, NoName, NoName, 0, out))
       /\ IF out = "err"
            THEN Exit(1) /\ UNCHANGED <<ri, branchesToSync>>
            ELSE \E remoteRefs \in Perms(AdvertisedRefs(Here.srv[name])) :
                   LET branches == branchesToSync
                                     \o SelectSeq(remoteRefs, LAMBDA r : IsBranch(r.name)) IN
                     /\ branchesToSync' = branches
                     /\ ri' = ri + 1
                     /\ pc' = AfterFetch(ri + 1, branches)
                     /\ UNCHANGED exitCode
  /\ UNCHANGED <<created, repoSync, git, run, todo, rs, remotes, bi, localBranch, tags, ti>>

\* repoGetLocalBranchForRemote that never finds a local branch.
repoGetLocalBranchForRemote_NeverFound(heads, remoteBranch) == Nil

\* 85-116: the local branch whose full name equals the remote branch's, or nil.
repoGetLocalBranchForRemote(heads, remoteBranch) ==
  LET localBranches == {Ref(BranchRefName(b), heads[b]) :
                          b \in {x \in AllBranchNames : heads[x] # 0}}
      found == {l \in localBranches : l.name = remoteBranch.name}
  IN IF found = {} THEN Nil ELSE CHOOSE l \in found : TRUE

\* 181-185: repo.Worktree().
Worktree ==
  /\ pc = "worktree"
  /\ \E out \in Outcomes :
       /\ log' = Append(log, Call("worktree", "", NoName, NoName, 0, out))
       /\ IF out = "ok" THEN pc' = "branches" /\ UNCHANGED exitCode ELSE Exit(1)
  /\ UNCHANGED <<created, repoSync, git, run, prog>>

\* 187-191: repoGetLocalBranchForRemote.  When repo.Branches() fails its
\* iterator is nil and branches.ForEach panics (exit status 2).
GetLocalBranch ==
  /\ pc = "branches"
  /\ \E out \in Outcomes :
       /\ log' = Append(log, Call("branches", "", branchesToSync[bi].name, NoName, 0, out))
       /\ IF out = "ok"
            THEN /\ localBranch' = repoGetLocalBranchForRemote(Here.heads, branchesToSync[bi])
                 /\ pc' = "checkout"
                 /\ UNCHANGED exitCode
            ELSE Exit(2) /\ UNCHANGED localBranch
  /\ UNCHANGED <<created, repoSync, git, run, todo, rs, remotes, ri, branchesToSync, bi, tags, ti>>

\* 193-205: no local branch: w.Checkout creates it at the remote branch's hash
\* and moves HEAD to it.
CheckoutCreate ==
  /\ pc = "checkout"
  /\ localBranch = Nil
  /\ LET remoteBranch == branchesToSync[bi] IN
     \E out \in Outcomes :
       /\ log' = Append(log, Call("checkoutCreate", "", remoteBranch.name, NoName,
                                  remoteBranch.hash, out))
       /\ IF out = "err"
            THEN Exit(1) /\ UNCHANGED <<git, created>>
            ELSE /\ SetGit([Here EXCEPT !.heads[Short(remoteBranch.name)] = remoteBranch.hash,
                                        !.HEAD = remoteBranch.name])
                 /\ created' = created \cup {<<run, rs, remoteBranch.name>>}
                 /\ pc' = "head"
                 /\ UNCHANGED exitCode
  /\ UNCHANGED <<repoSync, run, prog>>

\* 206-215: repo.Head() after the creating checkout, compared with the remote
\* branch (hash and name).
RepoHead ==
  /\ pc = "head"
  /\ LET remoteBranch == branchesToSync[bi]
         head == Ref(Here.HEAD, Here.heads[Short(Here.HEAD)])
     IN \E out \in Outcomes :
          /\ log' = Append(log, Call("head", "", head.name, NoName, head.hash, out))
          /\ IF out = "err"
               THEN Exit(1) /\ UNCHANGED localBranch
               ELSE /\ localBranch' = head
                    /\ IF head.hash # remoteBranch.hash \/ head.name # remoteBranch.name
                         THEN Exit(1)
                         ELSE pc' = "pull" /\ UNCHANGED exitCode
  /\ UNCHANGED <<created, repoSync, git, run, todo, rs, remotes, ri, branchesToSync, bi,
                 tags, ti>>

\* 216-228: the local branch exists: switch to it.
CheckoutSwitch ==
  /\ pc = "checkout"
  /\ localBranch # Nil
  /\ \E out \in Outcomes :
       /\ log' = Append(log, Call("checkoutSwitch", "", localBranch.name, NoName,
                                  localBranch.hash, out))
       /\ IF out = "err"
            THEN Exit(1) /\ UNCHANGED git
            ELSE /\ SetGit([Here EXCEPT !.HEAD = localBranch.name])
                 /\ pc' = "pull"
                 /\ UNCHANGED exitCode
  /\ UNCHANGED <<created, repoSync, run, prog>>

\* The outcomes of go-git Worktree.Pull: NoErrAlreadyUpToDate when the fetch
\* brought nothing and the remote branch is reachable from HEAD; an update of
\* HEAD's branch when HEAD is reachable from the remote branch; otherwise
\* ErrNonFastForwardUpdate.  Fetching may fail in every case.
PullOutcomes(updated, head, ref) ==
  {"err"} \cup (IF ~updated /\ isFastForward(ref, head) THEN {"uptodate"}
                ELSE IF isFastForward(head, ref) THEN {"ok"}
                ELSE {})

\* 230-240: w.Pull of the single branch from the source remote.
Pull ==
  /\ pc = "pull"
  /\ LET remoteBranch == branchesToSync[bi]
         source == Cfg.SourceRemote.Name
         cur == Short(Here.HEAD)
         ref == Here.srv[source].heads[Short(remoteBranch.name)]
     IN \E out \in PullOutcomes(source \in Here.stale, Here.heads[cur], ref) :
          /\ log' = Append(log, Call("pull", source, remoteBranch.name, NoName, ref, out))
          /\ IF out = "err"
               THEN Exit(1) /\ UNCHANGED git
               ELSE /\ pc' = "reset"
                    /\ UNCHANGED exitCode
                    /\ IF out = "ok"
                         THEN SetGit([Here EXCEPT !.heads[cur] = ref,
                                                  !.stale = @ \ {source}])
                         ELSE UNCHANGED git
  /\ UNCHANGED <<created, repoSync, run, prog>>

\* The commit line 244 resets to.
ResetCommit == localBranch.hash

\* 242-250: w.Reset, hard, to the hash held by the variable localBranch.
Reset ==
  /\ pc = "reset"
  /\ \E out \in Outcomes :
       /\ log' = Append(log, Call("reset", "", localBranch.name, NoName, ResetCommit, out))
       /\ IF out = "err"
            THEN Exit(1) /\ UNCHANGED git
            ELSE /\ SetGit([Here EXCEPT !.heads[Short(Here.HEAD)] = ResetCommit])
                 /\ pc' = "push"
                 /\ UNCHANGED exitCode
  /\ UNCHANGED <<created, repoSync, run, prog>>

\* 252-256: the destination of "+%s:refs/heads/%s".
PushDst(remoteBranch) ==
  BranchRefName(mapBranch(repoSync.BranchMapping, Short(remoteBranch.name)))

\* The outcomes of go-git Repository.Push of one forced refspec: an error when
\* the remote is not configured, NoErrAlreadyUpToDate when the server already
\* has the commit under the destination name; the transfer may fail.
PushOutcomes(remote, same) ==
  {"err"} \cup (IF remote \notin Here.remotes THEN {}
                ELSE IF same THEN {"uptodate"} ELSE {"ok"})

\* 252-272: force push of the local branch to the target remote.
Push ==
  /\ pc = "push"
  /\ LET remote == Cfg.TargetRemote.Name
         src == localBranch.name
         dst == PushDst(branchesToSync[bi])
         hash == Here.heads[Short(src)]
     IN \E out \in PushOutcomes(remote, Here.srv[remote].heads[Short(dst)] = hash) :
          /\ log' = Append(log, Call("push", remote, src, dst, hash, out))
          /\ IF out = "err"
               THEN Exit(1) /\ UNCHANGED git
               ELSE /\ pc' = "status"
                    /\ UNCHANGED exitCode
                    /\ IF out = "ok"
                         THEN SetGit([Here EXCEPT !.srv[remote].heads[Short(dst)] = hash])
                         ELSE UNCHANGED git
  /\ UNCHANGED <<created, repoSync, run, prog>>

\* 284-292: w.Status(), then the next branch.
Status ==
  /\ pc = "status"
  /\ \E out \in Outcomes :
       /\ log' = Append(log, Call("status", "", NoName, NoName, 0, out))
       /\ IF out = "err"
            THEN Exit(1) /\ UNCHANGED bi
            ELSE /\ bi' = bi + 1
                 /\ pc' = AfterBranch(bi + 1)
                 /\ UNCHANGED exitCode
  /\ UNCHANGED <<created, repoSync, git, run, todo, rs, remotes, ri, branchesToSync,
                 localBranch, tags, ti>>

\* Where main() continues once tags.ForEach is at position i of tgs.
AfterTag(i, tgs) == IF i <= Len(tgs) THEN "pushTag" ELSE "loop"

\* 294-299: repo.Tags().
Tags ==
  /\ pc = "tags"
  /\ \E out \in Outcomes :
       /\ log' = Append(log, Call("tags", "", NoName, NoName, 0, out))
       /\ IF out = "err"
            THEN Exit(1) /\ UNCHANGED tags
            ELSE \E order \in Perms(Here.tags) :
                   /\ tags' = order
                   /\ pc' = AfterTag(1, order)
                   /\ UNCHANGED exitCode
  /\ UNCHANGED <<created, repoSync, git, run, todo, rs, remotes, ri, branchesToSync, bi,
                 localBranch, ti>>

\* 300-319: force push of one tag under its own name.
PushTag ==
  /\ pc = "pushTag"
  /\ LET remote == Cfg.TargetRemote.Name
         t == tags[ti]
     IN \E out \in PushOutcomes(remote, t \in Here.srv[remote].tags) :
          /\ log' = Append(log, Call("pushTag", remote, TagRefName(t), TagRefName(t), 0, out))
          /\ IF out = "err"
               THEN Exit(1) /\ UNCHANGED <<git, ti>>
               ELSE /\ ti' = ti + 1
                    /\ pc' = AfterTag(ti + 1, tags)
                    /\ UNCHANGED exitCode
                    /\ IF out = "ok"
                         THEN SetGit([Here EXCEPT !.srv[remote].tags = @ \cup {t}])
                         ELSE UNCHANGED git
  /\ UNCHANGED <<created, repoSync, run, todo, rs, remotes, ri, branchesToSync, bi,
                 localBranch, tags>>

\* The program is started again on the same input after a run that exited with 0.
Restart ==
  /\ pc = "done"
  /\ run < MaxRuns
  /\ run' = run + 1
  /\ pc' = "loop"
  /\ exitCode' = -1
  /\ todo' = DOMAIN repoSync.Repos
  /\ rs' = ""
  /\ remotes' = <<>>
  /\ ri' = 1
  /\ branchesToSync' = <<>>
  /\ bi' = 1
  /\ localBranch' = Nil
  /\ tags' = <<>>
  /\ ti' = 1
  /\ log' = <<>>
  /\ UNCHANGED <<created, repoSync, git>>

Next ==
  \/ PlainOpen
  \/ Finish
  \/ Remotes
  \/ TargetRemote
  \/ Fetch
  \/ List
  \/ Worktree
  \/ GetLocalBranch
  \/ CheckoutCreate
  \/ RepoHead
  \/ CheckoutSwitch
  \/ Pull
  \/ Reset
  \/ Push
  \/ Status
  \/ Tags
  \/ PushTag
  \/ Restart

Spec == Init /\ [][Next]_vars

\* ---------------------------------------------------------------- properties

Idx == 1 .. Len(log)
BranchOps == {"checkoutCreate", "checkoutSwitch", "head", "pull", "reset", "push"}
\* The repository r was opened by the current invocation.
Opened(r) == \E i \in Idx : log[i].repo = r /\ log[i].op = "open" /\ log[i].out = "ok"
\* The loop body of line 125 ran to its end for r in the current invocation.
Completed(r) == Opened(r) /\ (r # rs \/ pc \in {"loop", "done"})

\* C1 (as claimed): when the push of a source branch is issued, the local
\* branch it pushes points to the commit of that source branch, on the create
\* path and on the update path alike.
C1_PushedCommitIsRemoteCommit ==
  pc = "push" => Here.heads[Short(localBranch.name)] = branchesToSync[bi].hash

\* C3 (as claimed): in the second run no branch the first run created is
\* created again, and no fetch, pull or push changes anything (none has the
\* outcome "ok").
C3_SecondRunIsIdle ==
  run = 2 =>
    \A i \in Idx :
      /\ log[i].op = "checkoutCreate" => <<1, log[i].repo, log[i].ref>> \notin created
      /\ log[i].op \in {"fetch", "pull", "push", "pushTag"} => log[i].out # "ok"

\* C4 (as claimed): a failed Git operation is the last one the run issues, and
\* the run has then terminated with a non-zero exit status.
C4_ErrorIsTerminal ==
  \A i \in Idx :
    log[i].out = "err" => i = Len(log) /\ pc = "exit" /\ exitCode > 0

\* The checkouts and pushes of repository r, in the order they were issued.
Sub(r) ==
  SelectSeq(log, LAMBDA e : e.repo = r /\ e.op \in {"checkoutCreate", "checkoutSwitch", "push"})

C2_Shape ==
  rs # "" =>
    LET sub == Sub(rs) IN
      /\ \A a, b \in 1 .. Len(branchesToSync) :
           a # b => branchesToSync[a].name # branchesToSync[b].name
      /\ \A k \in 1 .. Len(sub) :
           /\ (k + 1) \div 2 <= Len(branchesToSync)
           /\ sub[k].ref = branchesToSync[(k + 1) \div 2].name
           /\ (k % 2 = 1) => sub[k].op \in {"checkoutCreate", "checkoutSwitch"}
           /\ (k % 2 = 0) => sub[k].op = "push"
           /\ k < Len(sub) => sub[k].out # "err"
      /\ pc \in {"worktree", "branches", "checkout"} => Len(sub) = 2 * (bi - 1)
      /\ pc \in {"head", "pull", "reset", "push"} => Len(sub) = 2 * bi - 1
      /\ pc = "status" => Len(sub) = 2 * bi
      /\ pc \in {"tags", "pushTag", "loop", "done"} => Len(sub) = 2 * Len(branchesToSync)

C2_Step ==
  pc = "checkout" =>
    (log'[Len(log')].op = "checkoutCreate"
       <=> Here.heads[Short(branchesToSync[bi].name)] = 0)

\* C2: the checkouts and pushes of a repository alternate, one checkout (a
\* create exactly when no local branch of that name exists at that moment, else
\* a switch) and then one push per source branch, in the order of the branch
\* list; once the branch loop is over, every branch has had both.
C2_OneCheckoutThenOnePushPerBranch == [][C2_Step /\ C2_Shape']_vars

\* C2 witness: the branch loop is over for two source branches, the first was
\* updated and the second created.
C2_Witness ==
  /\ pc = "tags"
  /\ Len(Sub(rs)) = 4
  /\ Sub(rs)[1].op = "checkoutSwitch"
  /\ Sub(rs)[3].op = "checkoutCreate"
  /\ \A i \in Idx : log[i].out # "err"

\* Every local tag of r was pushed to r's target remote under its own name.
TagsPushed(r) ==
  \A t \in git[r].tags :
    \E i \in Idx : /\ log[i].repo = r
                   /\ log[i].op = "pushTag"
                   /\ log[i].remote = repoSync.Repos[r].TargetRemote.Name
                   /\ log[i].ref = <<"refs/tags/", t>>
                   /\ log[i].dst = <<"refs/tags/", t>>

\* C5 (as claimed): once the run is over, every local tag of every repository
\* it opened has been pushed, whatever happened to the repository's branches.
C5_TagsPushedWhateverHappens ==
  pc \in {"done", "exit"} => \A r \in DOMAIN repoSync.Repos : Opened(r) => TagsPushed(r)

\* C5 (amended): for every repository whose processing ran to its end, every
\* local tag was pushed to the target remote under its own name, also when the
\* branch list is empty, and no branch action follows a tag push.
C5_TagsPushedWhenRepoCompletes ==
  \A r \in DOMAIN repoSync.Repos :
    /\ Completed(r) => TagsPushed(r)
    /\ \A i, j \in Idx :
         (i < j /\ log[i].repo = r /\ log[j].repo = r /\ log[i].op = "pushTag")
           => log[j].op \notin BranchOps

\* C5 witness: a repository with a local tag and an empty list of source
\* branches (the source remote exists and has no branch) ran to its end.
C5_Witness ==
  /\ rs # ""
  /\ Completed(rs)
  /\ Cfg.SourceRemote.Name \in Here.remotes
  /\ branchesToSync = <<>>
  /\ Here.tags # {}
  /\ \E i \in Idx : log[i].op = "pushTag"

\* C6: mapBranch returns the table's entry for a key and the name itself
\* otherwise (also for the empty table), and every branch push goes from
\* refs/heads/<short> to refs/heads/<mapped short>.
C6_PushDestinationIsMappedName ==
  /\ mapBranch("master" :> "main", "master") = "main"
  /\ mapBranch("master" :> "main", "dev") = "dev"
  /\ \A b \in AllBranchNames : mapBranch(NoMapping, b) = b
  /\ \A i \in Idx :
       log[i].op = "push" =>
         LET T == repoSync.BranchMapping
             short == log[i].ref[2]
         IN /\ log[i].ref = <<"refs/heads/", short>>
            /\ log[i].dst = <<"refs/heads/", IF short \in DOMAIN T THEN T[short] ELSE short>>

\* C6 witness: under master->main, refs/heads/master was pushed to
\* refs/heads/main and refs/heads/dev to refs/heads/dev.
C6_Witness ==
  /\ \E i \in Idx : /\ log[i].op = "push"
                    /\ log[i].ref = <<"refs/heads/", "master">>
                    /\ log[i].dst = <<"refs/heads/", "main">>
                    /\ log[i].out = "ok"
  /\ \E i \in Idx : /\ log[i].op = "push"
                    /\ log[i].ref = <<"refs/heads/", "dev">>
                    /\ log[i].dst = <<"refs/heads/", "dev">>

\* C7 (as claimed): every push of a branch or tag follows a successful lookup
\* of the target remote or a create-remote call for it (with the configured
\* name and URL), and a create-remote call is never issued for a remote that
\* exists (such a call can only fail, and leaves the name among the remotes).
C7_CreateRemoteOnlyWhenMissing ==
  \A i \in Idx :
    /\ log[i].op \in {"push", "pushTag"} =>
         \E j \in 1 .. i - 1 : /\ log[j].repo = log[i].repo
                               /\ log[j].remote = log[i].remote
                               /\ \/ log[j].op = "getRemote" /\ log[j].out = "ok"
                                  \/ log[j].op = "createRemote"
    /\ log[i].op = "createRemote" =>
         /\ log[i].remote = repoSync.Repos[log[i].repo].TargetRemote.Name
         /\ log[i].dst = <<"", repoSync.Repos[log[i].repo].TargetRemote.Url>>
         /\ log[i].out = "err" => log[i].remote \notin git[log[i].repo].remotes

\* C8: a failed fetch is the last call of the run, the run has terminated with
\* a non-zero status, and no checkout, pull, reset, push or tag push was issued
\* for that repository.
C8_FetchFailureStopsBeforeBranches ==
  \A i \in Idx :
    (log[i].op = "fetch" /\ log[i].out = "err") =>
      /\ i = Len(log)
      /\ pc = "exit"
      /\ exitCode > 0
      /\ \A j \in Idx : log[j].repo = log[i].repo => log[j].op \notin BranchOps \cup {"pushTag"}

\* C8 witness: the fetch of a remote other than the source failed after the
\* source remote had been fetched and listed.
C8_Witness ==
  \E i \in Idx : /\ i > 1
                 /\ log[i].op = "fetch" /\ log[i].out = "err"
                 /\ log[i].remote # Cfg.SourceRemote.Name
                 /\ log[i - 1].op = "list" /\ log[i - 1].out = "ok"

\* C9 (as claimed): the listing of the source remote is issued before any
\* fetch of that repository.
C9_ListBeforeAnyFetch ==
  \A i \in Idx :
    log[i].op = "list" =>
      \A j \in 1 .. i : log[j].repo = log[i].repo => log[j].op # "fetch"

\* C9 (amended): the listing of the source remote is issued directly after the
\* successful fetch of the source remote (so after the fetch of every remote
\* that precedes it in the remote list and before the fetch of every later one).
C9_ListFollowsSourceFetch ==
  \A i \in Idx :
    log[i].op = "list" =>
      /\ i > 1
      /\ log[i].remote = repoSync.Repos[log[i].repo].SourceRemote.Name
      /\ log[i - 1].op = "fetch"
      /\ log[i - 1].repo = log[i].repo
      /\ log[i - 1].remote = log[i].remote
      /\ log[i - 1].out \in {"ok", "uptodate"}
      /\ \A j \in Idx : (j # i /\ log[j].repo = log[i].repo) => log[j].op # "list"

\* C9 witness: the source remote was listed after the fetch of another remote
\* and before the fetch of a third.
C9_Witness ==
  \E i \in Idx : /\ i > 2 /\ i < Len(log)
                 /\ log[i].op = "list"
                 /\ log[i - 2].op = "fetch" /\ log[i - 2].remote # log[i].remote
                 /\ log[i + 1].op = "fetch" /\ log[i + 1].repo = log[i].repo

\* The configured source remote of r is none of r's remotes.
NoSourceRemote(r) == repoSync.Repos[r].SourceRemote.Name \notin git[r].remotes

\* C10: for a repository whose source remote name matches no remote, no
\* listing and no checkout, pull, reset or branch push is ever issued and the
\* branch list stays empty; the run only exits on a failed call; when the
\* repository's processing is over, every remote of line 133 was fetched and
\* every local tag pushed, and the run goes on with the loop (ending with 0).
C10_UnknownSourceRemoteIsSkipped ==
  /\ \A i \in Idx :
       NoSourceRemote(log[i].repo) => log[i].op \notin BranchOps \cup {"list", "worktree", "branches"}
  /\ (rs # "" /\ NoSourceRemote(rs)) =>
       /\ branchesToSync = <<>>
       /\ pc = "exit" => log[Len(log)].out = "err"
       /\ Completed(rs) =>
            /\ \A k \in 1 .. Len(remotes) :
                 \E i \in Idx : /\ log[i].repo = rs /\ log[i].op = "fetch"
                                /\ log[i].remote = remotes[k]
            /\ Len(remotes) > 0
            /\ TagsPushed(rs)
            /\ pc = "done" => exitCode = 0

\* C10 witness: a repository without its source remote, with two remotes and
\* a tag, ran to its end and the next repository was opened after it.
C10_Witness ==
  \E i, j \in Idx :
    /\ i < j
    /\ NoSourceRemote(log[i].repo)
    /\ log[i].op = "pushTag"
    /\ Cardinality({k \in Idx : log[k].repo = log[i].repo /\ log[k].op = "fetch"}) = 2
    /\ log[j].op = "open" /\ log[j].out = "ok"
    /\ log[j].repo # log[i].repo

====
